---- MODULE Spec2Model ----
(***************************************************************************)
(* Topic (src/src/Topic.ts): a typed topic bound to a Ros connection.      *)
(*                                                                         *)
(* The model follows the JavaScript execution of the class: every method   *)
(* is one atomic step, a promise keeps the reactions registered with       *)
(* then() while it is pending, and the reactions of a settled promise run  *)
(* later, one by one, from the FIFO microtask queue.  Method calls,        *)
(* settlements by the Connection and microtasks interleave freely.         *)
(***************************************************************************)
EXTENDS Integers, Sequences, FiniteSets, TLC

\* Bounds of the model.
MaxCalls == 4        \* advertise / unadvertise / publish calls in a run
MaxSubCalls == 3     \* subscribe / unsubscribe calls in a run
MaxSubReq == 2       \* createSubscription requests in a run
MaxCallbacks == 2    \* distinct callback identities
MaxDeliver == 2      \* messages the Connection delivers for the topic

VARIABLES
    rosImpl,        \* this.#ros.rosImpl is defined
    publisher,      \* this.#publisher: 0 (undefined) or a createPublisher promise
    pubReq,         \* state of every createPublisher promise, by id
    reactions,      \* then() callbacks waiting on each pending publisher promise
    pubHandle,      \* calls received by the Publisher handle of each promise
    subscriptions,  \* this.#subscriptions: callback -> Subscription (0: no entry)
    subReq,         \* every createSubscription promise: its callback and state
    subHandle,      \* the Subscription handle of each promise
    delivered,      \* messages the Connection has delivered for the topic
    microtasks,     \* the microtask queue
    unhandled,      \* rejections no handler took
    calls,          \* history: publisher-side calls on the Topic, in order
    subCalls        \* history: subscription-side calls on the Topic, in order

vars == <<rosImpl, publisher, pubReq, reactions, pubHandle, subscriptions, subReq,
          subHandle, delivered, microtasks, unhandled, calls, subCalls>>

pubVars == <<publisher, pubReq, reactions, pubHandle, calls>>
subVars == <<subscriptions, subReq, subHandle, delivered, subCalls>>

Callbacks == 1..MaxCallbacks

Job(kind, id, m) == [kind |-> kind, id |-> id, m |-> m]

Init ==
    /\ rosImpl \in BOOLEAN
    /\ publisher = 0
    /\ pubReq = <<>>
    /\ reactions = <<>>
    /\ pubHandle = <<>>
    /\ subscriptions = [cb \in Callbacks |-> 0]
    /\ subReq = <<>>
    /\ subHandle = <<>>
    /\ delivered = 0
    /\ microtasks = <<>>
    /\ unhandled = 0
    /\ calls = <<>>
    /\ subCalls = <<>>

(***************************************************************************)
(* Promise.prototype.then(onFulfilled) on promise p of a list of promise   *)
(* states: the callback waits while p is pending, is queued as a microtask *)
(* when p is already fulfilled, and is skipped when p is rejected (the     *)
(* derived promise then rejects with no handler).                          *)
(***************************************************************************)
ThenReactions(reqs, reacts, p, job) ==
    IF p # 0 /\ reqs[p] = "pending"
    THEN [reacts EXCEPT ![p] = Append(@, job)]
    ELSE reacts

ThenMicrotasks(reqs, p, job) ==
    IF p = 0 \/ reqs[p] = "pending" THEN microtasks
    ELSE IF reqs[p] = "fulfilled" THEN Append(microtasks, job)
    ELSE Append(microtasks, Job("rejected", p, 0))

\* The publisher fields of the Topic as they stand.
Current ==
    [publisher |-> publisher, pubReq |-> pubReq, reactions |-> reactions,
     pubHandle |-> pubHandle, req |-> 0]

\* The body of advertise() with createPublisher called whether or not the
\* connection has an implementation.
AdvertisedUnconditionally ==
    [publisher |-> Len(pubReq) + 1,
     pubReq    |-> Append(pubReq, "pending"),
     reactions |-> Append(reactions, <<>>),
     pubHandle |-> Append(pubHandle, <<>>),
     req       |-> Len(pubReq) + 1]

\* The publisher fields after the body of advertise().
Advertised ==
    IF rosImpl
    THEN [publisher |-> Len(pubReq) + 1,
          pubReq    |-> Append(pubReq, "pending"),
          reactions |-> Append(reactions, <<>>),
          pubHandle |-> Append(pubHandle, <<>>),
          req       |-> Len(pubReq) + 1]
    ELSE [Current EXCEPT !.publisher = 0]

\* The record of a call in the history: the value of #publisher before it,
\* the createPublisher request it issued (0: none), whether rosImpl was there,
\* and the state, at the call, of the promise it found or else created.
Call(op, m, req) ==
    [op |-> op, m |-> m, before |-> publisher, req |-> req, impl |-> rosImpl,
     st |-> IF publisher # 0 THEN pubReq[publisher]
            ELSE IF req # 0 THEN "pending" ELSE "none"]

\* advertise()
Advertise ==
    /\ Len(calls) < MaxCalls
    /\ publisher' = Advertised.publisher
    /\ pubReq' = Advertised.pubReq
    /\ reactions' = Advertised.reactions
    /\ pubHandle' = Advertised.pubHandle
    /\ calls' = Append(calls, Call("advertise", 0, Advertised.req))
    /\ UNCHANGED <<rosImpl, microtasks, unhandled>>
    /\ UNCHANGED subVars

\* The messages are numbered in the order of their publish() calls.
NextMessage == Cardinality({i \in DOMAIN calls : calls[i].op = "publish"}) + 1

\* publish(message) without the test of #publisher: it advertises every time.
PublishAlwaysAdvertise ==
    /\ Len(calls) < MaxCalls
    /\ LET a == Advertised
           job == Job("publish", a.publisher, NextMessage)
       IN /\ publisher' = a.publisher
          /\ pubReq' = a.pubReq
          /\ pubHandle' = a.pubHandle
          /\ reactions' = ThenReactions(a.pubReq, a.reactions, a.publisher, job)
          /\ microtasks' = ThenMicrotasks(a.pubReq, a.publisher, job)
          /\ calls' = Append(calls, Call("publish", NextMessage, a.req))
    /\ UNCHANGED <<rosImpl, unhandled>>
    /\ UNCHANGED subVars

\* publish(message)
Publish ==
    /\ Len(calls) < MaxCalls
    /\ LET a == IF publisher = 0 THEN Advertised ELSE Current
           job == Job("publish", a.publisher, NextMessage)
       IN /\ publisher' = a.publisher
          /\ pubReq' = a.pubReq
          /\ pubHandle' = a.pubHandle
          /\ reactions' = ThenReactions(a.pubReq, a.reactions, a.publisher, job)
          /\ microtasks' = ThenMicrotasks(a.pubReq, a.publisher, job)
          /\ calls' = Append(calls, Call("publish", NextMessage, a.req))
    /\ UNCHANGED <<rosImpl, unhandled>>
    /\ UNCHANGED subVars

\* unadvertise() that advertises first when there is no publisher, as
\* publish() does.
UnadvertiseLazy ==
    /\ Len(calls) < MaxCalls
    /\ LET a == IF publisher = 0 THEN Advertised ELSE Current
           job == Job("unadvertise", a.publisher, 0)
       IN /\ publisher' = a.publisher
          /\ pubReq' = a.pubReq
          /\ pubHandle' = a.pubHandle
          /\ reactions' = ThenReactions(a.pubReq, a.reactions, a.publisher, job)
          /\ microtasks' = ThenMicrotasks(a.pubReq, a.publisher, job)
          /\ calls' = Append(calls, Call("unadvertise", 0, a.req))
    /\ UNCHANGED <<rosImpl, unhandled>>
    /\ UNCHANGED subVars

\* unadvertise()
Unadvertise ==
    /\ Len(calls) < MaxCalls
    /\ LET job == Job("unadvertise", publisher, 0)
       IN /\ reactions' = ThenReactions(pubReq, reactions, publisher, job)
          /\ microtasks' = ThenMicrotasks(pubReq, publisher, job)
    /\ calls' = Append(calls, Call("unadvertise", 0, 0))
    /\ UNCHANGED <<rosImpl, publisher, pubReq, pubHandle, unhandled>>
    /\ UNCHANGED subVars

\* The Connection fulfils a createPublisher promise with its Publisher handle.
ResolvePublisher(p) ==
    /\ pubReq[p] = "pending"
    /\ pubReq' = [pubReq EXCEPT ![p] = "fulfilled"]
    /\ microtasks' = microtasks \o reactions[p]
    /\ reactions' = [reactions EXCEPT ![p] = <<>>]
    /\ UNCHANGED <<rosImpl, publisher, pubHandle, unhandled, calls>>
    /\ UNCHANGED subVars

\* The Connection rejects a createPublisher promise.
RejectPublisher(p) ==
    /\ pubReq[p] = "pending"
    /\ pubReq' = [pubReq EXCEPT ![p] = "rejected"]
    /\ microtasks' = microtasks \o
           [i \in 1..Len(reactions[p]) |-> Job("rejected", p, 0)]
    /\ reactions' = [reactions EXCEPT ![p] = <<>>]
    /\ UNCHANGED <<rosImpl, publisher, pubHandle, unhandled, calls>>
    /\ UNCHANGED subVars

\* (publisher) => { publisher.publish(message); }
RunPublish ==
    /\ microtasks # <<>>
    /\ Head(microtasks).kind = "publish"
    /\ LET j == Head(microtasks)
       IN pubHandle' = [pubHandle EXCEPT
              ![j.id] = Append(@, [op |-> "publish", m |-> j.m])]
    /\ microtasks' = Tail(microtasks)
    /\ UNCHANGED <<rosImpl, publisher, pubReq, reactions, unhandled, calls>>
    /\ UNCHANGED subVars

\* The callback of unadvertise() without its second statement: it calls
\* unadvertise() on the handle and keeps #publisher.
RunUnadvertiseKeeps ==
    /\ microtasks # <<>>
    /\ Head(microtasks).kind = "unadvertise"
    /\ LET j == Head(microtasks)
       IN pubHandle' = [pubHandle EXCEPT
              ![j.id] = Append(@, [op |-> "unadvertise", m |-> 0])]
    /\ microtasks' = Tail(microtasks)
    /\ UNCHANGED <<rosImpl, publisher, pubReq, reactions, unhandled, calls>>
    /\ UNCHANGED subVars

\* (publisher) => { publisher.unadvertise(); this.#publisher = undefined; }
RunUnadvertise ==
    /\ microtasks # <<>>
    /\ Head(microtasks).kind = "unadvertise"
    /\ LET j == Head(microtasks)
       IN pubHandle' = [pubHandle EXCEPT
              ![j.id] = Append(@, [op |-> "unadvertise", m |-> 0])]
    /\ publisher' = 0
    /\ microtasks' = Tail(microtasks)
    /\ UNCHANGED <<rosImpl, pubReq, reactions, unhandled, calls>>
    /\ UNCHANGED subVars

\* The callback of subscribe() passed to then() as the rejection handler
\* too: it stores the outcome of a rejected request in the map.
RunRejectedStores ==
    /\ microtasks # <<>>
    /\ Head(microtasks).kind = "rejected"
    /\ LET j == Head(microtasks)
       IN subscriptions' = [subscriptions EXCEPT ![subReq[j.id].cb] = j.id]
    /\ unhandled' = unhandled
    /\ microtasks' = Tail(microtasks)
    /\ UNCHANGED <<rosImpl, subReq, subHandle, delivered, subCalls>>
    /\ UNCHANGED pubVars

\* A then() callback of a rejected promise does not run; the promise then()
\* returned rejects, and nothing handles it.
RunRejected ==
    /\ microtasks # <<>>
    /\ Head(microtasks).kind = "rejected"
    /\ unhandled' = unhandled + 1
    /\ microtasks' = Tail(microtasks)
    /\ UNCHANGED <<rosImpl>>
    /\ UNCHANGED pubVars
    /\ UNCHANGED subVars

\* The Ros connection gains its implementation.
Connect ==
    /\ ~rosImpl
    /\ rosImpl' = TRUE
    /\ UNCHANGED <<microtasks, unhandled>>
    /\ UNCHANGED pubVars
    /\ UNCHANGED subVars

\* The Ros connection loses its implementation.
Close ==
    /\ rosImpl
    /\ rosImpl' = FALSE
    /\ UNCHANGED <<microtasks, unhandled>>
    /\ UNCHANGED pubVars
    /\ UNCHANGED subVars

NextPub ==
    \/ Advertise
    \/ Publish
    \/ Unadvertise
    \/ \E p \in DOMAIN pubReq : ResolvePublisher(p)
    \/ \E p \in DOMAIN pubReq : RejectPublisher(p)
    \/ RunPublish
    \/ RunUnadvertise
    \/ RunRejected
    \/ Connect
    \/ Close

SpecPub == Init /\ [][NextPub]_vars

\* The publisher side with the host's microtask queue always drained: a
\* queued then() callback runs; the Connection settles a promise or not, as
\* it pleases.
SpecPubFair ==
    /\ SpecPub
    /\ WF_vars(RunPublish)
    /\ WF_vars(RunUnadvertise)
    /\ WF_vars(RunRejected)

(***************************************************************************)
(* Subscription side.                                                      *)
(***************************************************************************)

\* Subscription.unsubscribe() on a handle.
HandleUnsubscribe(h) == [h EXCEPT !.unsubscribed = @ + 1]

\* What unsubscribe() does with a handle it finds in the map: it calls
\* unsubscribe() on it.  History fields of a handle: since is the number of
\* messages delivered before its promise was fulfilled, removedAt the number
\* of invocations of its callback when the Topic dropped it (-1: not yet).
Drop(h) == [HandleUnsubscribe(h) EXCEPT !.removedAt = h.invoked]

\* The pending createSubscription promises for callback cb (for any, if cb = 0).
PendingFor(cb) ==
    {s \in DOMAIN subReq :
        subReq[s].state = "pending" /\ (cb = 0 \/ subReq[s].cb = cb)}

SubCall(op, cb, req) ==
    [op |-> op, cb |-> cb, req |-> req, pend |-> PendingFor(cb)]

\* subscribe(callback) that issues no request while one for the same
\* callback is pending.
SubscribeOnce(cb) ==
    /\ Len(subCalls) < MaxSubCalls
    /\ rosImpl => Len(subReq) < MaxSubReq
    /\ IF rosImpl /\ PendingFor(cb) = {}
       THEN /\ subReq' = Append(subReq, [cb |-> cb, state |-> "pending"])
            /\ subHandle' = Append(subHandle,
                   [unsubscribed |-> 0, invoked |-> 0, since |-> -1,
                    removedAt |-> -1])
            /\ subCalls' = Append(subCalls, SubCall("subscribe", cb, Len(subReq) + 1))
       ELSE /\ UNCHANGED <<subReq, subHandle>>
            /\ subCalls' = Append(subCalls, SubCall("subscribe", cb, 0))
    /\ UNCHANGED <<rosImpl, subscriptions, delivered, microtasks, unhandled>>
    /\ UNCHANGED pubVars

\* subscribe(callback)
Subscribe(cb) ==
    /\ Len(subCalls) < MaxSubCalls
    /\ rosImpl => Len(subReq) < MaxSubReq
    /\ IF rosImpl
       THEN /\ subReq' = Append(subReq, [cb |-> cb, state |-> "pending"])
            /\ subHandle' = Append(subHandle,
                   [unsubscribed |-> 0, invoked |-> 0, since |-> -1,
                    removedAt |-> -1])
            /\ subCalls' = Append(subCalls, SubCall("subscribe", cb, Len(subReq) + 1))
       ELSE /\ UNCHANGED <<subReq, subHandle>>
            /\ subCalls' = Append(subCalls, SubCall("subscribe", cb, 0))
    /\ UNCHANGED <<rosImpl, subscriptions, delivered, microtasks, unhandled>>
    /\ UNCHANGED pubVars

\* The handle dropped from the map with no unsubscribe() call on it.
Forget(h) == [h EXCEPT !.removedAt = h.invoked]

\* unsubscribe(callback) that deletes the entry and leaves its handle alone.
UnsubscribeForget(cb) ==
    /\ Len(subCalls) < MaxSubCalls
    /\ subHandle' = IF subscriptions[cb] # 0
                    THEN [subHandle EXCEPT ![subscriptions[cb]] = Forget(@)]
                    ELSE subHandle
    /\ subscriptions' = [subscriptions EXCEPT ![cb] = 0]
    /\ subCalls' = Append(subCalls, SubCall("unsubscribe", cb, 0))
    /\ UNCHANGED <<rosImpl, subReq, delivered, microtasks, unhandled>>
    /\ UNCHANGED pubVars

\* unsubscribe(callback) that takes the no-callback branch whatever it is given.
UnsubscribeClears(cb) ==
    /\ Len(subCalls) < MaxSubCalls
    /\ subHandle' = [s \in DOMAIN subHandle |->
                        IF \E c \in Callbacks : subscriptions[c] = s
                        THEN Drop(subHandle[s])
                        ELSE subHandle[s]]
    /\ subscriptions' = [c \in Callbacks |-> 0]
    /\ subCalls' = Append(subCalls, SubCall("unsubscribe", cb, 0))
    /\ UNCHANGED <<rosImpl, subReq, delivered, microtasks, unhandled>>
    /\ UNCHANGED pubVars

\* unsubscribe(callback) without the delete: it calls unsubscribe() on the
\* handle and keeps the entry.
UnsubscribeKeeps(cb) ==
    /\ Len(subCalls) < MaxSubCalls
    /\ subHandle' = IF subscriptions[cb] # 0
                    THEN [subHandle EXCEPT ![subscriptions[cb]] = HandleUnsubscribe(@)]
                    ELSE subHandle
    /\ subCalls' = Append(subCalls, SubCall("unsubscribe", cb, 0))
    /\ UNCHANGED <<rosImpl, subscriptions, subReq, delivered, microtasks, unhandled>>
    /\ UNCHANGED pubVars

\* unsubscribe(callback)
Unsubscribe(cb) ==
    /\ Len(subCalls) < MaxSubCalls
    /\ subHandle' = IF subscriptions[cb] # 0
                    THEN [subHandle EXCEPT ![subscriptions[cb]] = Drop(@)]
                    ELSE subHandle
    /\ subscriptions' = [subscriptions EXCEPT ![cb] = 0]
    /\ subCalls' = Append(subCalls, SubCall("unsubscribe", cb, 0))
    /\ UNCHANGED <<rosImpl, subReq, delivered, microtasks, unhandled>>
    /\ UNCHANGED pubVars

\* unsubscribe()
UnsubscribeAll ==
    /\ Len(subCalls) < MaxSubCalls
    /\ subHandle' = [s \in DOMAIN subHandle |->
                        IF \E cb \in Callbacks : subscriptions[cb] = s
                        THEN Drop(subHandle[s])
                        ELSE subHandle[s]]
    /\ subscriptions' = [cb \in Callbacks |-> 0]
    /\ subCalls' = Append(subCalls, SubCall("unsubscribe", 0, 0))
    /\ UNCHANGED <<rosImpl, subReq, delivered, microtasks, unhandled>>
    /\ UNCHANGED pubVars

\* The Connection fulfils a createSubscription promise with its handle; the
\* one then() callback subscribe() registered on it becomes a microtask.
ResolveSubscription(s) ==
    /\ subReq[s].state = "pending"
    /\ subReq' = [subReq EXCEPT ![s].state = "fulfilled"]
    /\ subHandle' = [subHandle EXCEPT ![s].since = delivered]
    /\ microtasks' = Append(microtasks, Job("set", s, subReq[s].cb))
    /\ UNCHANGED <<rosImpl, subscriptions, delivered, unhandled, subCalls>>
    /\ UNCHANGED pubVars

\* The Connection rejects a createSubscription promise.
RejectSubscription(s) ==
    /\ subReq[s].state = "pending"
    /\ subReq' = [subReq EXCEPT ![s].state = "rejected"]
    /\ microtasks' = Append(microtasks, Job("rejected", s, 0))
    /\ UNCHANGED <<rosImpl, subscriptions, subHandle, delivered, unhandled, subCalls>>
    /\ UNCHANGED pubVars

\* (subscription) => { this.#subscriptions.set(callback, subscription); }
RunSet ==
    /\ microtasks # <<>>
    /\ Head(microtasks).kind = "set"
    /\ LET j == Head(microtasks)
       IN subscriptions' = [subscriptions EXCEPT ![j.m] = j.id]
    /\ microtasks' = Tail(microtasks)
    /\ UNCHANGED <<rosImpl, subReq, subHandle, delivered, unhandled, subCalls>>
    /\ UNCHANGED pubVars

\* A Subscription handle delivers while it is registered on the Connection:
\* from the fulfilment of its promise until unsubscribe() is called on it.
Active(s) == subReq[s].state = "fulfilled" /\ subHandle[s].unsubscribed = 0

\* The Connection delivers one message for the topic to its subscriptions:
\* every active Subscription handle invokes its callback with it, once.
DeliverMessage ==
    /\ delivered < MaxDeliver
    /\ \E s \in DOMAIN subReq : Active(s)
    /\ delivered' = delivered + 1
    /\ subHandle' = [s \in DOMAIN subHandle |->
                        IF Active(s)
                        THEN [subHandle[s] EXCEPT !.invoked = @ + 1]
                        ELSE subHandle[s]]
    /\ UNCHANGED <<rosImpl, subscriptions, subReq, microtasks, unhandled, subCalls>>
    /\ UNCHANGED pubVars

NextSub ==
    \/ \E cb \in Callbacks : Subscribe(cb)
    \/ \E cb \in Callbacks : Unsubscribe(cb)
    \/ UnsubscribeAll
    \/ \E s \in DOMAIN subReq : ResolveSubscription(s)
    \/ \E s \in DOMAIN subReq : RejectSubscription(s)
    \/ RunSet
    \/ RunRejected
    \/ DeliverMessage
    \/ Connect
    \/ Close

SpecSub == Init /\ [][NextSub]_vars

Next == NextPub \/ NextSub

Spec == Init /\ [][Next]_vars

(***************************************************************************)
(* Observations on a state.                                                *)
(***************************************************************************)

\* The messages a Publisher handle has received through publish(), in order.
Sent(p) ==
    LET pubs == SelectSeq(pubHandle[p], LAMBDA e : e.op = "publish")
    IN [i \in 1..Len(pubs) |-> pubs[i].m]

\* How often unadvertise() has been called on a Publisher handle.
UnadvertiseCount(p) ==
    Cardinality({i \in DOMAIN pubHandle[p] : pubHandle[p][i].op = "unadvertise"})

\* A Publisher handle is live on the Connection from the fulfilment of its
\* promise until unadvertise() is called on it.
LivePublishers ==
    {p \in DOMAIN pubReq : pubReq[p] = "fulfilled" /\ UnadvertiseCount(p) = 0}

\* The promise a publish() or unadvertise() call works on: the one it found
\* in #publisher, or else the one it requested.
Target(c) == IF c.before # 0 THEN c.before ELSE c.req

\* The messages of the publish() calls made on promise p while p was pending.
PublishedWhilePending(p) ==
    LET cs == SelectSeq(calls, LAMBDA c :
                  c.op = "publish" /\ Target(c) = p /\ c.st = "pending")
    IN [i \in 1..Len(cs) |-> cs[i].m]

\* Promise p is fulfilled and none of its then() callbacks is still queued.
PubDrained(p) ==
    /\ pubReq[p] = "fulfilled"
    /\ \A i \in DOMAIN microtasks :
          ~(microtasks[i].kind \in {"publish", "unadvertise"} /\ microtasks[i].id = p)

(***************************************************************************)
(* Claims about the publisher side, checked under SpecPub.                 *)
(***************************************************************************)

\* C1: a run of advertise() calls with the connection available and no
\* unadvertise() issues exactly one createPublisher request, and an
\* advertise() that finds a pending or resolved publisher is a no-op.
C1_SinglePublisherRequest ==
    /\ \A j \in DOMAIN calls :
          (\A k \in 1..j : calls[k].op = "advertise" /\ calls[k].impl)
              => Cardinality({k \in 1..j : calls[k].req # 0}) = 1
    /\ \A j \in DOMAIN calls :
          (/\ calls[j].op = "advertise"
           /\ calls[j].before # 0
           /\ calls[j].st \in {"pending", "fulfilled"})
              => calls[j].req = 0

\* C2: at most one Publisher handle of the Topic is live (resolved and not
\* yet unadvertised) in every reachable state.
C2_AtMostOneLivePublisher == Cardinality(LivePublishers) <= 1

\* C3: the publish() calls made while the publisher request was pending
\* reach its handle, once it resolves, in call order and each once.
C3_PublishOrderWhileAdvertising ==
    \A p \in DOMAIN pubReq :
        LET w == PublishedWhilePending(p)
            s == Sent(p)
        IN /\ \A i \in DOMAIN s \cap DOMAIN w : s[i] = w[i]
           /\ \A i \in DOMAIN w :
                 Cardinality({k \in DOMAIN s : s[k] = w[i]}) <= 1
           /\ PubDrained(p) => Len(s) >= Len(w)

\* C3 witness: three messages published while the request was pending have
\* all reached the resolved handle.
C3_Witness ==
    \E p \in DOMAIN pubReq :
        /\ PubDrained(p)
        /\ Len(PublishedWhilePending(p)) >= 3
        /\ Sent(p) = PublishedWhilePending(p)

\* C4: two unadvertise() calls in a row produce at most one unadvertise()
\* call on the Publisher handle.
C4_IdempotentUnadvertise ==
    \A i \in DOMAIN calls :
        (/\ i + 1 \in DOMAIN calls
         /\ calls[i].op = "unadvertise"
         /\ calls[i + 1].op = "unadvertise"
         /\ calls[i].before # 0)
            => UnadvertiseCount(calls[i].before) <= 1

\* C5: advertise(), unadvertise(), publish(m) with the connection available:
\* publish issues a new createPublisher request, the second in total, and m
\* is not forwarded through the old handle.
C5_ReadvertiseAfterUnadvertise ==
    (/\ Len(calls) >= 3
     /\ calls[1].op = "advertise" /\ calls[1].req # 0
     /\ calls[2].op = "unadvertise"
     /\ calls[3].op = "publish" /\ calls[3].impl)
        => /\ calls[3].req = 2
           /\ \A k \in DOMAIN Sent(calls[1].req) :
                 Sent(calls[1].req)[k] # calls[3].m

\* C6: once unadvertise() has been called on a Publisher handle, publish()
\* is never called on that handle again.
C6_NoPublishAfterUnadvertise ==
    \A p \in DOMAIN pubHandle :
        \A i, j \in DOMAIN pubHandle[p] :
            ~(i < j /\ pubHandle[p][i].op = "unadvertise"
                    /\ pubHandle[p][j].op = "publish")

(***************************************************************************)
(* Claims about the subscription side, checked under SpecSub.              *)
(***************************************************************************)

\* Promise s is fulfilled and its then() callback has run.
SubSettled(s) ==
    /\ subReq[s].state = "fulfilled"
    /\ \A i \in DOMAIN microtasks :
          ~(microtasks[i].kind = "set" /\ microtasks[i].id = s)

\* The Subscription handles registered on the Connection.
LiveSubscriptions == {s \in DOMAIN subReq : Active(s)}

\* C7: after subscribe(cb1), subscribe(cb2), unsubscribe(), once both
\* requests have resolved, the map is empty and each of the two handles has
\* received exactly one unsubscribe() call.
C7_UnsubscribeAllClears ==
    (/\ Len(subCalls) = 3
     /\ subCalls[1].op = "subscribe" /\ subCalls[1].req # 0
     /\ subCalls[2].op = "subscribe" /\ subCalls[2].req # 0
     /\ subCalls[1].cb # subCalls[2].cb
     /\ subCalls[3].op = "unsubscribe" /\ subCalls[3].cb = 0
     /\ SubSettled(subCalls[1].req)
     /\ SubSettled(subCalls[2].req))
        => /\ \A cb \in Callbacks : subscriptions[cb] = 0
           /\ subHandle[subCalls[1].req].unsubscribed = 1
           /\ subHandle[subCalls[2].req].unsubscribed = 1

\* C8: after subscribe(cb) twice before either request resolves, and both
\* resolved, exactly one handle is live: the one stored under cb.
C8_NoOrphanOnDoubleSubscribe ==
    (/\ Len(subCalls) = 2
     /\ subCalls[1].op = "subscribe" /\ subCalls[1].req # 0
     /\ subCalls[2].op = "subscribe" /\ subCalls[2].req # 0
     /\ subCalls[1].cb = subCalls[2].cb
     /\ subCalls[1].req \in subCalls[2].pend
     /\ SubSettled(subCalls[1].req)
     /\ SubSettled(subCalls[2].req))
        => LiveSubscriptions = {subscriptions[subCalls[1].cb]}

\* C9: a request for cb that was pending when unsubscribe(cb) was called
\* is, once resolved, unsubscribed: not live and not in the map.
C9_TeardownBeforeResolution ==
    \A i \in DOMAIN subCalls :
        (subCalls[i].op = "unsubscribe" /\ subCalls[i].cb # 0)
            => \A s \in subCalls[i].pend :
                   SubSettled(s) => /\ ~Active(s)
                                    /\ subscriptions[subCalls[i].cb] # s

\* C10: a resolved subscription's callback is invoked once for each message
\* the Connection delivers, and never again through a handle that
\* unsubscribe has removed from the map.
C10_DeliveryStopsAfterUnsubscribe ==
    \A s \in DOMAIN subHandle :
        LET h == subHandle[s]
        IN /\ (subReq[s].state = "fulfilled" /\ h.removedAt = -1)
                  => h.invoked = delivered - h.since
           /\ h.removedAt # -1 => h.invoked = h.removedAt

\* C10 witness: cb was invoked through its handle, unsubscribe(cb) removed
\* the handle, and the Connection has delivered another message since.
C10_Witness ==
    \E s \in DOMAIN subHandle :
        /\ subHandle[s].removedAt >= 1
        /\ subHandle[s].invoked = subHandle[s].removedAt
        /\ delivered - subHandle[s].since > subHandle[s].removedAt
        /\ \A i \in DOMAIN subCalls :
              subCalls[i].op = "unsubscribe" => subCalls[i].cb = subReq[s].cb

\* The step is a subscription-side call on the Topic, and the call it makes.
SubCallStep == Len(subCalls') = Len(subCalls) + 1
LastSubCall == subCalls'[Len(subCalls')]

\* C11: unsubscribe(cb) for a callback with no entry in the map, and
\* unsubscribe() with an empty map, call unsubscribe() on no handle and
\* leave the map, the publisher state and everything else unchanged.
C11_UnsubscribeNothingIsNoop ==
    [][(/\ SubCallStep
        /\ LastSubCall.op = "unsubscribe"
        /\ IF LastSubCall.cb = 0
           THEN \A cb \in Callbacks : subscriptions[cb] = 0
           ELSE subscriptions[LastSubCall.cb] = 0)
          => /\ UNCHANGED <<subscriptions, subHandle, subReq, delivered>>
             /\ UNCHANGED <<rosImpl, microtasks, unhandled>>
             /\ UNCHANGED pubVars]_vars

\* C11 witness: the last call was unsubscribe(cb) for a callback that never
\* had a handle dropped, while another callback's handle is in the map.
C11_Witness ==
    /\ subCalls # <<>>
    /\ LET c == subCalls[Len(subCalls)]
       IN /\ c.op = "unsubscribe" /\ c.cb # 0
          /\ \A i \in 1..(Len(subCalls) - 1) : subCalls[i].op = "subscribe"
          /\ \A s \in DOMAIN subHandle :
                subHandle[s].removedAt = -1 /\ subHandle[s].unsubscribed = 0
          /\ \E cb \in Callbacks : cb # c.cb /\ subscriptions[cb] # 0

\* The step is a publisher-side call on the Topic, and the call it makes.
PubCallStep == Len(calls') = Len(calls) + 1
LastCall == calls'[Len(calls')]

\* C12: unadvertise() with no publisher (#publisher undefined) issues no
\* request, calls unadvertise() on no handle, and leaves the publisher
\* state, the subscriptions and everything else unchanged.
C12_UnadvertiseNothingIsNoop ==
    [][(PubCallStep /\ LastCall.op = "unadvertise" /\ publisher = 0)
          => /\ UNCHANGED <<publisher, pubReq, reactions, pubHandle>>
             /\ UNCHANGED <<rosImpl, microtasks, unhandled>>
             /\ UNCHANGED subVars]_vars

\* C12 witness: unadvertise() was called with no publisher while the
\* connection was available, after an earlier publisher had been cleared.
C12_Witness ==
    /\ calls # <<>>
    /\ LET c == calls[Len(calls)]
       IN c.op = "unadvertise" /\ c.before = 0 /\ c.impl
    /\ pubReq # <<>>
    /\ publisher = 0

\* C13: once the Connection has rejected the createPublisher request and
\* unadvertise() has been called on it, the Topic is no longer bound to the
\* failed request: #publisher does not hold it once the microtasks have
\* run, and a later publish() with the connection available issues a fresh
\* createPublisher request.
C13_FailedAdvertiseClears ==
    \A p \in DOMAIN pubReq :
        (/\ pubReq[p] = "rejected"
         /\ \E i \in DOMAIN calls :
               calls[i].op = "unadvertise" /\ calls[i].before = p)
            => /\ microtasks = <<>> => publisher # p
               /\ \A j \in DOMAIN calls :
                     (/\ calls[j].op = "publish" /\ calls[j].impl
                      /\ calls[j].st = "rejected"
                      /\ \E i \in 1..(j - 1) :
                            /\ calls[i].op = "unadvertise"
                            /\ calls[i].st = "rejected"
                            /\ calls[i].before = p)
                         => calls[j].req # 0

\* Every then() callback chained on a promise that is now rejected comes
\* from a publish() call made after the rejection.
OnlyPublishAfterRejection ==
    \A i \in DOMAIN calls :
        (/\ calls[i].op # "advertise"
         /\ Target(calls[i]) # 0
         /\ pubReq[Target(calls[i])] = "rejected")
            => calls[i].op = "publish" /\ calls[i].st = "rejected"

\* C14: a publish(m) made after the Connection rejected createPublisher
\* forwards m to no Publisher handle, and no unhandled failure escapes from
\* the Topic.
C14_AdvertiseFailureAbsorbed ==
    /\ \A j \in DOMAIN calls :
          (calls[j].op = "publish" /\ calls[j].st = "rejected")
              => \A p \in DOMAIN pubHandle :
                    \A k \in DOMAIN Sent(p) : Sent(p)[k] # calls[j].m
    /\ OnlyPublishAfterRejection => unhandled = 0

\* The step runs the microtask of a then() callback on a rejected promise.
RejectedStep ==
    /\ microtasks # <<>>
    /\ Head(microtasks).kind = "rejected"
    /\ microtasks' = Tail(microtasks)

SetStep ==
    /\ microtasks # <<>>
    /\ Head(microtasks).kind = "set"
    /\ microtasks' = Tail(microtasks)

\* The then() callback of request s is in the microtask queue.
SetQueued(s) ==
    \E i \in DOMAIN microtasks : microtasks[i].kind = "set" /\ microtasks[i].id = s

\* C16 as claimed: every subscribe(cb) call, in every state of the Topic
\* and its Connection, issues a createSubscription request.
C16_EverySubscribeRequests ==
    \A i \in DOMAIN subCalls :
        subCalls[i].op = "subscribe" => subCalls[i].req # 0

\* C16, amended: a subscribe(cb) call made while rosImpl is present issues
\* exactly one createSubscription request, for cb, and one made while it is
\* absent issues none; the callback of a fulfilled request stores its
\* handle in the map under cb, where it stays until it is dropped or a
\* later request for cb replaces it.
C16_SubscribeRequestsWhenConnected ==
    /\ [][(SubCallStep /\ LastSubCall.op = "subscribe")
             => IF rosImpl
                THEN /\ subReq' = Append(subReq,
                            [cb |-> LastSubCall.cb, state |-> "pending"])
                     /\ LastSubCall.req = Len(subReq')
                ELSE /\ subReq' = subReq
                     /\ LastSubCall.req = 0]_vars
    /\ [][SetStep
             => subscriptions' = [subscriptions EXCEPT
                    ![subReq[Head(microtasks).id].cb] = Head(microtasks).id]]_vars
    /\ [](\A s \in DOMAIN subReq :
             subReq[s].state = "fulfilled"
                 => \/ SetQueued(s)
                    \/ subscriptions[subReq[s].cb] = s
                    \/ subHandle[s].removedAt # -1
                    \/ \E t \in DOMAIN subReq :
                          /\ t # s
                          /\ subReq[t].cb = subReq[s].cb
                          /\ subReq[t].state = "fulfilled"
                          /\ ~SetQueued(t))

\* C16 witness: one subscribe(cb) call made without rosImpl issued no
\* request; another issued a request, which resolved and is stored under cb.
C16_Witness ==
    \E i, j \in DOMAIN subCalls :
        /\ subCalls[i].op = "subscribe" /\ subCalls[i].req = 0
        /\ subCalls[j].op = "subscribe" /\ subCalls[j].req # 0
        /\ SubSettled(subCalls[j].req)
        /\ subscriptions[subCalls[j].cb] = subCalls[j].req

ForwardStep ==
    /\ microtasks # <<>>
    /\ Head(microtasks).kind = "publish"
    /\ microtasks' = Tail(microtasks)

\* C18: with no unadvertise() call, the messages reach the transport in
\* the order of their publish() calls: when a message is forwarded, no
\* message of a later publish() call has been forwarded to any handle.
C18_LifetimePublishOrder ==
    [][(ForwardStep /\ \A i \in DOMAIN calls : calls[i].op # "unadvertise")
          => \A p \in DOMAIN pubHandle :
                \A k \in DOMAIN Sent(p) : Sent(p)[k] < Head(microtasks).m]_vars

\* C19: unsubscribe(cb) with a handle stored under cb calls unsubscribe()
\* exactly once on that handle and on no other, removes exactly that entry,
\* and leaves every other entry and the publisher state unchanged.
C19_TargetedUnsubscribe ==
    [][(/\ SubCallStep
        /\ LastSubCall.op = "unsubscribe"
        /\ LastSubCall.cb # 0
        /\ subscriptions[LastSubCall.cb] # 0)
          => LET s == subscriptions[LastSubCall.cb]
             IN /\ subHandle'[s].unsubscribed = subHandle[s].unsubscribed + 1
                /\ subHandle'[s].invoked = subHandle[s].invoked
                /\ \A t \in DOMAIN subHandle : t # s => subHandle'[t] = subHandle[t]
                /\ subscriptions' = [subscriptions EXCEPT ![LastSubCall.cb] = 0]
                /\ UNCHANGED <<subReq, delivered, rosImpl, microtasks, unhandled>>
                /\ UNCHANGED pubVars]_vars

\* C19 witness: two resolved subscriptions were in the map; unsubscribe(cb)
\* has unsubscribed and removed one, and the other is still stored and live.
C19_Witness ==
    /\ Len(subCalls) = 3
    /\ subCalls[1].op = "subscribe" /\ subCalls[2].op = "subscribe"
    /\ subCalls[3].op = "unsubscribe" /\ subCalls[3].cb # 0
    /\ \E s, t \in DOMAIN subHandle :
          /\ s # t
          /\ subReq[s].cb = subCalls[3].cb
          /\ subHandle[s].unsubscribed = 1 /\ subHandle[s].removedAt # -1
          /\ subscriptions[subReq[s].cb] = 0
          /\ subscriptions[subReq[t].cb] = t
          /\ subCalls[3].pend = {}
          /\ Active(t)

\* The last call is an unadvertise() made while its publisher request was
\* pending, the only unadvertise() on that request, and the request has
\* since been fulfilled.
UnadvertisedWhilePending ==
    /\ calls # <<>>
    /\ LET c == calls[Len(calls)]
       IN /\ c.op = "unadvertise"
          /\ c.before # 0
          /\ c.st = "pending"
          /\ pubReq[c.before] = "fulfilled"
          /\ \A i \in 1..(Len(calls) - 1) :
                ~(calls[i].op = "unadvertise" /\ calls[i].before = c.before)

\* C20: after one unadvertise() on a pending publisher request that is then
\* fulfilled, and while no further Topic operation is made, unadvertise() is
\* called on the resolved handle at most once, and eventually it has been
\* called exactly once and #publisher is undefined.
C20_UnadvertiseWhileAdvertising ==
    /\ [](UnadvertisedWhilePending
            => UnadvertiseCount(calls[Len(calls)].before) <= 1)
    /\ UnadvertisedWhilePending
         ~> \/ ~UnadvertisedWhilePending
            \/ /\ publisher = 0
               /\ UnadvertiseCount(calls[Len(calls)].before) = 1

\* C20 witness: advertise(), then unadvertise() while the request was
\* pending; the request was fulfilled and the callback has run.
C20_Witness ==
    /\ Len(calls) = 2
    /\ calls[1].op = "advertise" /\ calls[1].req = 1
    /\ UnadvertisedWhilePending
    /\ calls[2].before = 1
    /\ publisher = 0
    /\ UnadvertiseCount(1) = 1
    /\ microtasks = <<>>

\* The handles with an entry in the subscriptions map.
Stored == {subscriptions[cb] : cb \in Callbacks} \ {0}

\* C21: the Topic calls unsubscribe() only on a handle that is in the
\* subscriptions map at that moment and removes it in the same step; so no
\* handle is unsubscribed more than once, and no handle in the map has been
\* unsubscribed.
C21_UnsubscribeOnlyStoredOnce ==
    /\ [](\A s \in DOMAIN subHandle :
             /\ subHandle[s].unsubscribed <= 1
             /\ s \in Stored => subHandle[s].unsubscribed = 0)
    /\ [][\A s \in DOMAIN subHandle :
             subHandle'[s].unsubscribed # subHandle[s].unsubscribed
                => /\ s \in Stored
                   /\ s \notin Stored'
                   /\ subHandle'[s].unsubscribed = subHandle[s].unsubscribed + 1]_vars

\* C21 witness: subscribe(cb), unsubscribe(cb), subscribe(cb) with both
\* requests fulfilled and stored in turn: the first handle has been
\* unsubscribed once and is out of the map, the second is stored and live.
C21_Witness ==
    /\ Len(subCalls) = 3
    /\ subCalls[1].op = "subscribe"
    /\ subCalls[2].op = "unsubscribe" /\ subCalls[2].cb = subCalls[1].cb
    /\ subCalls[3].op = "subscribe" /\ subCalls[3].cb = subCalls[1].cb
    /\ Len(subReq) = 2
    /\ subHandle[1].unsubscribed = 1
    /\ subHandle[1].removedAt # -1
    /\ Stored = {2}
    /\ subHandle[2].unsubscribed = 0

\* Message m has been forwarded to some Publisher handle.
Forwarded(m) == \E p \in DOMAIN pubHandle : \E k \in DOMAIN Sent(p) : Sent(p)[k] = m

\* C22 as stated: every publish(m) made while rosImpl is absent issues no
\* createPublisher request, leaves #publisher undefined, and m is never
\* forwarded.
C22_PublishWithoutImplDrops ==
    /\ [](\A i \in DOMAIN calls :
             (calls[i].op = "publish" /\ ~calls[i].impl)
                => calls[i].req = 0 /\ ~Forwarded(calls[i].m))
    /\ [][(PubCallStep /\ LastCall.op = "publish" /\ ~rosImpl)
             => publisher' = 0]_vars

\* C22 amended: a publish(m) made while rosImpl is absent and #publisher is
\* undefined issues no createPublisher request, changes no publisher state
\* and queues nothing, and m is never forwarded, whatever happens later.
C22_PublishUnadvertisedWithoutImplDrops ==
    /\ [](\A i \in DOMAIN calls :
             (calls[i].op = "publish" /\ ~calls[i].impl /\ calls[i].before = 0)
                => calls[i].req = 0 /\ ~Forwarded(calls[i].m))
    /\ [][(PubCallStep /\ LastCall.op = "publish" /\ ~rosImpl /\ publisher = 0)
             => /\ publisher' = 0
                /\ UNCHANGED <<pubReq, reactions, pubHandle>>
                /\ UNCHANGED <<rosImpl, microtasks, unhandled>>
                /\ UNCHANGED subVars]_vars

\* C22 witness: publish(m1) with rosImpl absent and no publisher; the
\* connection then gains its implementation, publish(m2) advertises, the
\* request is fulfilled and the handle has received m2 alone.
C22_Witness ==
    /\ Len(calls) = 2
    /\ calls[1].op = "publish" /\ ~calls[1].impl /\ calls[1].before = 0
    /\ calls[2].op = "publish" /\ calls[2].impl /\ calls[2].req = 1
    /\ pubReq = <<"fulfilled">>
    /\ microtasks = <<>>
    /\ Sent(1) = <<calls[2].m>>
    /\ ~Forwarded(calls[1].m)

====
